---- MODULE Spec2Model ----
(***************************************************************************)
(* train_countdown_app.py: the departure resolver (parse_time_hhmm,        *)
(* best_departure_datetime), the record assembly of fetch_services, the    *)
(* Streamlit script (Fetch Services / select / Start 5-Minute Countdown)   *)
(* and the countdown loop.                                                 *)
(*                                                                         *)
(* Strings are sequences of one-character strings.  An instant is an       *)
(* integer number of clock units since 00:00:00 of day 0; one second is    *)
(* UnitsPerSec units, so that sub-second offsets of the clock exist.       *)
(* A Python value that is a datetime, None or a raised ValueError is a     *)
(* record [kind, t].                                                       *)
(***************************************************************************)
EXTENDS Integers, Sequences, FiniteSets, TLC

VARIABLES
    now,            \* the wall clock, datetime.now()
    has_services,   \* "services" in st.session_state
    services,       \* st.session_state["services"]
    choice,         \* index the selectbox holds (1-based)
    has_target,     \* "target_dt" in st.session_state (set together with "chosen")
    target_dt,      \* st.session_state["target_dt"]
    chosen,         \* st.session_state["chosen"]
    pc,             \* "idle": script ended before the loop; "loop": in while True; "done": after break
    placeholder,    \* what the placeholder element shows
    status,         \* what the status element shows
    error_shown,    \* st.error was called in the last script run
    warning_shown,  \* st.warning("No services found.") was called in the last script run
    posts,          \* requests.post calls made in the last script run
    outcome,        \* how the fetch of the last script run ended: "none", "ok", "empty", "error"
    event,          \* what triggered the last script run or step
    tick_now,       \* the value of now read by the last loop iteration (line 129)
    clock_end,      \* the instant the clock is followed to
    in_std, in_etd, in_now,   \* inputs of a direct call of the resolver
    h_pc,           \* which function was called directly
    out_parse,      \* result of parse_time_hhmm(in_std)
    out_best,       \* result of best_departure_datetime(in_std, in_etd)
    out_fetch       \* result of the record assembly of fetch_services for one raw record

vars == <<now, has_services, services, choice, has_target, target_dt, chosen, pc,
          placeholder, status, error_shown, warning_shown, posts, outcome, event,
          tick_now, clock_end, in_std, in_etd, in_now, h_pc, out_parse, out_best, out_fetch>>

session_vars == <<now, has_services, services, choice, has_target, target_dt, chosen, pc,
                  placeholder, status, error_shown, warning_shown, posts, outcome, event,
                  tick_now, clock_end>>

call_vars == <<in_std, in_etd, in_now, h_pc, out_parse, out_best, out_fetch>>

----------------------------------------------------------------------------
(* Bounds of the model *)

UnitsPerSec == 2
MaxRows == 2
LeadSecs == 2

----------------------------------------------------------------------------
(* Time *)

SecsPerMin == 60
MinsPerHour == 60
HoursPerDay == 24
GraceHours == 6
RollDays == 1
CountdownSecs == 300
SleepSecs == 1

MinUnits == SecsPerMin * UnitsPerSec
HourUnits == MinsPerHour * MinUnits
DayUnits == HoursPerDay * HourUnits

\* datetime(day, h, m, s) as an instant
At(day, h, m, s) == day * DayUnits + h * HourUnits + m * MinUnits + s * UnitsPerSec

\* now.replace(hour=hh, minute=mm, second=0, microsecond=0): defined for
\* 0 <= hh <= 23 and 0 <= mm <= 59 only (datetime raises ValueError otherwise)
Replace(t, hh, mm) == (t \div DayUnits) * DayUnits + hh * HourUnits + mm * MinUnits

None == [kind |-> "None", t |-> 0]
ValueError == [kind |-> "ValueError", t |-> 0]
Dt(t) == [kind |-> "dt", t |-> t]

\* truth value of a Python object: None is false, a datetime is always true
Truthy(v) == v.kind = "dt"

----------------------------------------------------------------------------
(* Strings *)

Digits == <<"0", "1", "2", "3", "4", "5", "6", "7", "8", "9">>
IsDigit(c) == \E i \in 1..10 : Digits[i] = c
DigitVal(c) == (CHOOSE i \in 1..10 : Digits[i] = c) - 1

Contains(s, c) == \E i \in 1..Len(s) : s[i] = c

\* str.split(":"): one field more than there are colons; "" gives [""]
RECURSIVE Split(_)
Split(s) ==
    IF ~Contains(s, ":") THEN <<s>>
    ELSE LET i == CHOOSE k \in 1..Len(s) : s[k] = ":" /\ \A j \in 1..(k-1) : s[j] # ":"
         IN <<SubSeq(s, 1, i - 1)>> \o Split(SubSeq(s, i + 1, Len(s)))

\* str.strip() as int() applies it
RECURSIVE Strip(_)
Strip(s) ==
    IF s = <<>> THEN s
    ELSE IF Head(s) = " " THEN Strip(Tail(s))
    ELSE IF s[Len(s)] = " " THEN Strip(SubSeq(s, 1, Len(s) - 1))
    ELSE s

\* value of a run of digits and single underscores, left to right
RECURSIVE DigitsValue(_, _)
DigitsValue(s, acc) ==
    IF s = <<>> THEN acc
    ELSE IF Head(s) = "_" THEN DigitsValue(Tail(s), acc)
    ELSE DigitsValue(Tail(s), acc * 10 + DigitVal(Head(s)))

\* the body of a decimal literal: digits, with single underscores between digits
IsDecimalBody(s) ==
    /\ s # <<>>
    /\ \A i \in 1..Len(s) : IsDigit(s[i]) \/ s[i] = "_"
    /\ IsDigit(s[1]) /\ IsDigit(s[Len(s)])
    /\ \A i \in 1..(Len(s) - 1) : ~(s[i] = "_" /\ s[i + 1] = "_")

\* int(field): [ok, val]; ok = FALSE stands for ValueError
PyInt(field) ==
    LET s == Strip(field)
        signed == s # <<>> /\ (Head(s) = "-" \/ Head(s) = "+")
        body == IF signed THEN Tail(s) ELSE s
    IN IF IsDecimalBody(body)
       THEN [ok |-> TRUE,
             val |-> IF signed /\ Head(s) = "-" THEN 0 - DigitsValue(body, 0)
                     ELSE DigitsValue(body, 0)]
       ELSE [ok |-> FALSE, val |-> 0]

----------------------------------------------------------------------------
(* The departure resolver *)

\* the grace window test of line 23
NeedsRollMutInclusive(candidate, t) == candidate <= t - GraceHours * HourUnits

NeedsRoll(candidate, t) == candidate < t - GraceHours * HourUnits

\* the roll of line 24
RollMutWeek(candidate) == candidate + 7 * RollDays * DayUnits

Roll(candidate) == candidate + RollDays * DayUnits

\* parse_time_hhmm(tstr) called when the clock reads t
ParseTimeHHMM(tstr, t) ==
    LET fields == Split(tstr)
    IN IF Len(fields) # 2 THEN None
       ELSE LET hh == PyInt(fields[1])
                mm == PyInt(fields[2])
            IN IF ~hh.ok \/ ~mm.ok THEN None
               ELSE IF hh.val \notin 0..(HoursPerDay - 1) \/ mm.val \notin 0..(MinsPerHour - 1)
                    THEN ValueError
               ELSE LET candidate == Replace(t, hh.val, mm.val)
                    IN IF NeedsRoll(candidate, t) THEN Dt(Roll(candidate))
                       ELSE Dt(candidate)

BestMutScheduledFirst(std, etd, t) ==
    LET s == IF std # <<>> THEN ParseTimeHHMM(std, t) ELSE None
        e == IF etd # <<>> /\ Contains(etd, ":") THEN ParseTimeHHMM(etd, t) ELSE None
    IN IF s.kind = "ValueError" THEN [raised |-> TRUE, dt |-> None, basis |-> "None"]
       ELSE IF Truthy(s) THEN [raised |-> FALSE, dt |-> s, basis |-> "Scheduled"]
       ELSE IF e.kind = "ValueError" THEN [raised |-> TRUE, dt |-> None, basis |-> "None"]
       ELSE IF Truthy(e) THEN [raised |-> FALSE, dt |-> e, basis |-> "Estimated"]
       ELSE [raised |-> FALSE, dt |-> None, basis |-> "None"]

\* best_departure_datetime(std, etd) called when the clock reads t:
\* [raised, dt, basis]; raised = TRUE when the ValueError of replace() escapes
BestDepartureDatetime(std, etd, t) ==
    LET e == IF etd # <<>> /\ Contains(etd, ":") THEN ParseTimeHHMM(etd, t) ELSE None
        s == IF std # <<>> THEN ParseTimeHHMM(std, t) ELSE None
    IN IF e.kind = "ValueError" THEN [raised |-> TRUE, dt |-> None, basis |-> "None"]
       ELSE IF Truthy(e) THEN [raised |-> FALSE, dt |-> e, basis |-> "Estimated"]
       ELSE IF s.kind = "ValueError" THEN [raised |-> TRUE, dt |-> None, basis |-> "None"]
       ELSE IF Truthy(s) THEN [raised |-> FALSE, dt |-> s, basis |-> "Scheduled"]
       ELSE [raised |-> FALSE, dt |-> None, basis |-> "None"]

----------------------------------------------------------------------------
(* fetch_services: the request and the record assembly *)

\* A raw service of the response: std and etd as text.  operator, destination
\* and platform are copied into the record unread and are left out.
NoService == [std |-> <<>>, etd |-> <<>>, basis |-> "None", depart_dt |-> None]

\* lines 70-79: the record appended for one service, given the resolver's result
ServiceRecord(raw, best) ==
    [std |-> raw.std, etd |-> raw.etd, basis |-> best.basis, depart_dt |-> best.dt]

\* fetch_services(...) when the clock reads t: resp = "fail" is any failure of
\* lines 57-59 (requests.post, raise_for_status, ET.fromstring); an exception
\* of the resolver escapes the loop of lines 62-79 the same way.
FetchServices(resp, board, t) ==
    LET best == [i \in 1..Len(board) |-> BestDepartureDatetime(board[i].std, board[i].etd, t)]
    IN IF resp = "fail" \/ \E i \in 1..Len(board) : best[i].raised
       THEN [raised |-> TRUE, services |-> <<>>]
       ELSE [raised |-> FALSE,
             services |-> [i \in 1..Len(board) |-> ServiceRecord(board[i], best[i])]]

----------------------------------------------------------------------------
(* The countdown display *)

\* int(x) of a float x = units / UnitsPerSec: truncation toward zero
TotalSec(units) ==
    IF units >= 0 THEN units \div UnitsPerSec ELSE 0 - ((0 - units) \div UnitsPerSec)

\* str(n) for n >= 0
RECURSIVE Decimal(_)
Decimal(n) == IF n < 10 THEN <<Digits[n + 1]>> ELSE Decimal(n \div 10) \o <<Digits[(n % 10) + 1]>>

\* format(n, "02d") for n >= 0
Pad2(n) == IF n < 10 THEN <<"0">> \o Decimal(n) ELSE Decimal(n)

Empty == <<>>
Dashes == <<"-", "-", ":", "-", "-">>
Departing == <<"Departing now!">>
MmSs(mm, ss) == Pad2(mm) \o <<":">> \o Pad2(ss)

NoStatus == [kind |-> "empty", start_at |-> 0, mm |-> 0, ss |-> 0]
Counting == [kind |-> "counting", start_at |-> 0, mm |-> 0, ss |-> 0]
\* "5-minute countdown will begin at {start_at} (in {mm}m {ss}s)"; start_at is
\* strftime("%H:%M:%S"), kept as the second of the day
Begins(t, until_start) ==
    [kind |-> "begins",
     start_at |-> ((t + until_start * UnitsPerSec) % DayUnits) \div UnitsPerSec,
     mm |-> until_start \div SecsPerMin, ss |-> until_start % SecsPerMin]

\* the test of line 137
PastThresholdMutInclusive(total_sec) == total_sec >= CountdownSecs

PastThreshold(total_sec) == total_sec > CountdownSecs

\* the guard of line 120
CountdownGuardMutKeyOnly(present, target) == present

CountdownGuard(present, target) == present /\ Truthy(target)

----------------------------------------------------------------------------
(* Inputs *)

T0 == At(1, 9, 15, 0)

Tok_blank == <<>>
Tok_on_time == <<"O", "n", " ", "t", "i", "m", "e">>
Tok_delayed == <<"D", "e", "l", "a", "y", "e", "d">>
Tok_cancelled == <<"C", "a", "n", "c", "e", "l", "l", "e", "d">>
Tok_0000 == <<"0", "0", ":", "0", "0">>
Tok_0010 == <<"0", "0", ":", "1", "0">>
Tok_0400 == <<"0", "4", ":", "0", "0">>
Tok_0430 == <<"0", "4", ":", "3", "0">>
Tok_0915 == <<"0", "9", ":", "1", "5">>
Tok_0925 == <<"0", "9", ":", "2", "5">>
Tok_1405 == <<"1", "4", ":", "0", "5">>
Tok_1412 == <<"1", "4", ":", "1", "2">>
Tok_2359 == <<"2", "3", ":", "5", "9">>
Tok_2400 == <<"2", "4", ":", "0", "0">>
Tok_1260 == <<"1", "2", ":", "6", "0">>
Tok_neg == <<"-", "1", ":", "3", "0">>
Tok_three == <<"1", ":", "2", ":", "3">>
Tok_no_min == <<"1", "2", ":">>
Tok_dot == <<"1", "4", ".", "0", "5">>

\* the strings the resolver is called with directly
Tokens == {Tok_blank, Tok_on_time, Tok_delayed, Tok_cancelled, Tok_0000, Tok_0010,
           Tok_0400, Tok_0430, Tok_0915, Tok_1405, Tok_1412, Tok_2359, Tok_2400,
           Tok_1260, Tok_neg, Tok_three, Tok_no_min, Tok_dot}

\* the moments the resolver is called at directly, each also one unit later
CallMoments == {At(1, 0, 0, 0), At(1, 5, 59, 59), At(1, 9, 10, 0), At(1, 10, 0, 0),
                At(1, 10, 30, 0), At(1, 20, 5, 0), At(1, 23, 50, 0)}
CallNows == CallMoments \cup {t + 1 : t \in CallMoments}

\* the raw services a response is made of
Feed == {[std |-> Tok_0915, etd |-> Tok_on_time],
         [std |-> Tok_0915, etd |-> Tok_0925],
         [std |-> Tok_cancelled, etd |-> Tok_blank]}

RECURSIVE SeqsUpTo(_, _)
SeqsUpTo(S, n) ==
    IF n = 0 THEN {<<>>}
    ELSE LET shorter == SeqsUpTo(S, n - 1)
         IN shorter \cup {Append(b, x) : b \in shorter, x \in S}

Boards == SeqsUpTo(Feed, MaxRows)

\* a session opens one second before T0 or at the next clock unit
SessionNows == {T0 - UnitsPerSec, T0 - UnitsPerSec + 1}

\* time.sleep(1) returns after one second or later
Sleeps == {SleepSecs * UnitsPerSec, SleepSecs * UnitsPerSec + 1}

----------------------------------------------------------------------------
(* The Streamlit script.  Every interaction reruns the script from the top; *)
(* session_state is what survives a rerun.  A rerun abandons a countdown    *)
(* loop that is running and enters it anew at line 120.                     *)

\* the option lines of lines 106-111 (number, std, etd of each service)
Options(svcs) == [i \in 1..Len(svcs) |-> <<i, svcs[i].std, svcs[i].etd>>]

\* lines 120-126: the guard of the countdown and the two fresh st.empty() elements
EnterCountdown ==
    /\ pc' = IF CountdownGuard(has_target', target_dt') THEN "loop" ELSE "idle"
    /\ placeholder' = Empty
    /\ status' = NoStatus

\* lines 90-100 with the button pressed, then the rest of the script
FetchClick(resp, board) ==
    \E got \in {FetchServices(resp, board, now)} :
    LET local == got.services
    IN /\ event' = "fetch"
       /\ posts' = 1
       /\ error_shown' = got.raised
       /\ warning_shown' = (local = <<>>)
       /\ outcome' = IF got.raised THEN "error" ELSE IF local = <<>> THEN "empty" ELSE "ok"
       /\ IF local = <<>>
          THEN UNCHANGED <<has_services, services, choice>>
          ELSE /\ has_services' = TRUE
               /\ services' = local
               \* a selectbox with other options is a new widget, at index 0
               /\ choice' = IF has_services /\ Options(local) = Options(services)
                            THEN choice ELSE 1
       /\ UNCHANGED <<has_target, target_dt, chosen, now, tick_now, clock_end>>
       /\ EnterCountdown
       /\ UNCHANGED call_vars

\* line 113: the user picks another option; no button is pressed
SelectService(i) ==
    /\ has_services
    /\ i \in 1..Len(services)
    /\ i # choice
    /\ choice' = i
    /\ event' = "select"
    /\ posts' = 0
    /\ error_shown' = FALSE
    /\ warning_shown' = FALSE
    /\ outcome' = "none"
    /\ UNCHANGED <<has_services, services, has_target, target_dt, chosen, now, tick_now, clock_end>>
    /\ EnterCountdown
    /\ UNCHANGED call_vars

\* lines 114-118 with the button pressed
StartClick ==
    /\ has_services
    /\ event' = "start"
    /\ posts' = 0
    /\ error_shown' = FALSE
    /\ warning_shown' = FALSE
    /\ outcome' = "none"
    /\ has_target' = TRUE
    /\ target_dt' = services[choice].depart_dt
    /\ chosen' = services[choice]
    /\ UNCHANGED <<has_services, services, choice, now, tick_now, clock_end>>
    /\ EnterCountdown
    /\ UNCHANGED call_vars

\* lines 128-148: one iteration of while True, the sleep included
CountdownTick(d) ==
    /\ pc = "loop"
    /\ now <= clock_end
    /\ LET total_sec == TotalSec(target_dt.t - now)
       IN IF total_sec <= 0
          THEN /\ placeholder' = Departing
               /\ pc' = "done"
               /\ UNCHANGED <<status, now>>
          ELSE /\ IF PastThreshold(total_sec)
                  THEN /\ status' = Begins(now, total_sec - CountdownSecs)
                       /\ placeholder' = Dashes
                  ELSE /\ status' = Counting
                       /\ placeholder' = MmSs(total_sec \div SecsPerMin, total_sec % SecsPerMin)
               /\ pc' = "loop"
               /\ now' = now + d
    /\ tick_now' = now
    /\ event' = "tick"
    /\ UNCHANGED <<has_services, services, choice, has_target, target_dt, chosen,
                   error_shown, warning_shown, posts, outcome, clock_end>>
    /\ UNCHANGED call_vars

\* the clock while no script is running
TimePasses ==
    /\ pc # "loop"
    /\ now < clock_end
    /\ now' = now + 1
    /\ UNCHANGED <<has_services, services, choice, has_target, target_dt, chosen, pc,
                   placeholder, status, error_shown, warning_shown, posts, outcome,
                   event, tick_now, clock_end>>
    /\ UNCHANGED call_vars

NoCall ==
    /\ h_pc = "off"
    /\ in_std = <<>> /\ in_etd = <<>> /\ in_now = 0
    /\ out_parse = None
    /\ out_best = [raised |-> FALSE, dt |-> None, basis |-> "None"]
    /\ out_fetch = [raised |-> FALSE, services |-> <<>>]

\* the session before the first interaction: the first script run found
\* nothing in session_state
NoSession ==
    /\ has_services = FALSE /\ services = <<>> /\ choice = 1
    /\ has_target = FALSE /\ target_dt = None /\ chosen = NoService
    /\ pc = "idle" /\ placeholder = Empty /\ status = NoStatus
    /\ error_shown = FALSE /\ warning_shown = FALSE /\ posts = 0
    /\ outcome = "none" /\ event = "open"
    /\ tick_now = 0

Init ==
    /\ now \in SessionNows
    /\ clock_end = T0
    /\ NoSession
    /\ NoCall

Next ==
    \/ \E board \in Boards : FetchClick("ok", board)
    \/ FetchClick("fail", <<>>)
    \/ \E i \in 1..MaxRows : SelectService(i)
    \/ StartClick
    \/ \E d \in Sleeps : CountdownTick(d)
    \/ TimePasses

Spec == Init /\ [][Next]_vars

----------------------------------------------------------------------------
(* Direct calls of the resolver: every pair of Tokens at every moment of     *)
(* CallNows.                                                                 *)

CallParse ==
    /\ h_pc = "input"
    /\ h_pc' = "parse"
    /\ in_now' = now
    /\ out_parse' = ParseTimeHHMM(in_std, now)
    /\ UNCHANGED <<in_std, in_etd, out_best, out_fetch>>
    /\ UNCHANGED session_vars

CallBest ==
    /\ h_pc = "input"
    /\ h_pc' = "best"
    /\ in_now' = now
    /\ out_best' = BestDepartureDatetime(in_std, in_etd, now)
    /\ UNCHANGED <<in_std, in_etd, out_parse, out_fetch>>
    /\ UNCHANGED session_vars

\* fetch_services on a response of one service
CallFetch ==
    /\ h_pc = "input"
    /\ h_pc' = "fetch"
    /\ in_now' = now
    /\ out_fetch' = FetchServices("ok", <<[std |-> in_std, etd |-> in_etd]>>, now)
    /\ UNCHANGED <<in_std, in_etd, out_parse, out_best>>
    /\ UNCHANGED session_vars

InitCall ==
    /\ now \in CallNows
    /\ clock_end = now
    /\ NoSession
    /\ h_pc = "input"
    /\ in_std \in Tokens /\ in_etd \in Tokens /\ in_now = 0
    /\ out_parse = None
    /\ out_best = [raised |-> FALSE, dt |-> None, basis |-> "None"]
    /\ out_fetch = [raised |-> FALSE, services |-> <<>>]

NextCall == CallParse \/ CallBest \/ CallFetch

SpecCall == InitCall /\ [][NextCall]_vars

----------------------------------------------------------------------------
(* One countdown, from the script run that enters the loop to its break:    *)
(* a response of one service was fetched and the service confirmed at a     *)
(* moment of CountdownNows, and nothing interrupts the loop.                *)

CountdownNows == {T0 - (CountdownSecs + LeadSecs) * UnitsPerSec,
                  T0 - (CountdownSecs + LeadSecs) * UnitsPerSec + 1,
                  T0 - LeadSecs * UnitsPerSec}

InitCountdown ==
    /\ now \in CountdownNows
    /\ \E row \in Feed :
         \E got \in {FetchServices("ok", <<row>>, now)} :
            /\ Truthy(got.services[1].depart_dt)
            /\ services = got.services
            /\ chosen = got.services[1]
            /\ target_dt = got.services[1].depart_dt
    /\ clock_end = target_dt.t + UnitsPerSec
    /\ has_services = TRUE /\ choice = 1 /\ has_target = TRUE
    /\ pc = "loop" /\ placeholder = Empty /\ status = NoStatus
    /\ error_shown = FALSE /\ warning_shown = FALSE /\ posts = 0
    /\ outcome = "none" /\ event = "start"
    /\ tick_now = 0
    /\ NoCall

NextCountdown == \E d \in Sleeps : CountdownTick(d)

SpecCountdown == InitCountdown /\ [][NextCountdown]_vars

----------------------------------------------------------------------------
(* What the properties below are stated with *)

\* the strings of Tokens and Feed that are a clock time HH:MM, with their
\* hour and minute; every other string is not a usable clock time
ClockTable == {<<Tok_0000, 0, 0>>, <<Tok_0010, 0, 10>>,
               <<Tok_0400, 4, 0>>, <<Tok_0430, 4, 30>>, <<Tok_0915, 9, 15>>,
               <<Tok_0925, 9, 25>>, <<Tok_1405, 14, 5>>, <<Tok_1412, 14, 12>>,
               <<Tok_2359, 23, 59>>}
IsClock(tok) == \E e \in ClockTable : e[1] = tok
HourOf(tok) == (CHOOSE e \in ClockTable : e[1] = tok)[2]
MinuteOf(tok) == (CHOOSE e \in ClockTable : e[1] = tok)[3]

\* hour and minute of an instant
HourAt(t) == (t % DayUnits) \div HourUnits
MinuteAt(t) == (t % HourUnits) \div MinUnits

\* today's date at the clock time of tok, on the day of t
TodayAt(tok, t) == t - (t % DayUnits) + (HourOf(tok) * MinsPerHour + MinuteOf(tok)) * MinUnits

\* the anchoring rule: today, or the next day when today's candidate is
\* earlier than t minus six hours
Anchored(tok, t) ==
    IF TodayAt(tok, t) >= t - GraceHours * HourUnits THEN TodayAt(tok, t)
    ELSE TodayAt(tok, t) + DayUnits

\* the service list the script offers in the selectbox
Offered == IF has_services THEN services ELSE <<>>

\* whole seconds between the instant the last tick read and the target
Remaining ==
    IF target_dt.t >= tick_now THEN (target_dt.t - tick_now) \div UnitsPerSec
    ELSE 0 - ((tick_now - target_dt.t) \div UnitsPerSec)

\* the placeholder reads as two digits, a colon, two digits worth mm and ss
ShowsMmSs(p, mm, ss) ==
    /\ Len(p) = 5
    /\ p[3] = ":"
    /\ \A i \in {1, 2, 4, 5} : IsDigit(p[i])
    /\ DigitVal(p[1]) * 10 + DigitVal(p[2]) = mm
    /\ DigitVal(p[4]) * 10 + DigitVal(p[5]) = ss

\* how far the display has moved: nothing, placeholder, mm:ss, terminal
Rank(p) == IF p = Empty THEN 0 ELSE IF p = Dashes THEN 1 ELSE IF p = Departing THEN 3 ELSE 2

----------------------------------------------------------------------------
(* Properties *)

\* C1: best_departure_datetime uses the estimated string whenever it is a valid
\* clock time, whatever the scheduled string is, and returns its anchored
\* instant with basis Estimated; it returns basis Scheduled only when the
\* estimated string is not a valid clock time and the scheduled string is, and
\* then with the scheduled string's anchored instant.
C1_EstimatedPreferred ==
    h_pc = "best" =>
        /\ IsClock(in_etd) =>
              /\ ~out_best.raised
              /\ out_best.basis = "Estimated"
              /\ out_best.dt = Dt(Anchored(in_etd, in_now))
        /\ (~out_best.raised /\ out_best.basis = "Scheduled") =>
              /\ ~IsClock(in_etd)
              /\ IsClock(in_std)
              /\ out_best.dt = Dt(Anchored(in_std, in_now))
        /\ (IsClock(in_std) /\ ~IsClock(in_etd) /\ ~out_best.raised) =>
              out_best.basis = "Scheduled"

\* C1 witness: both strings are clock times, different ones, and the result is Estimated
C1_Witness ==
    /\ h_pc = "best"
    /\ IsClock(in_etd) /\ IsClock(in_std) /\ in_etd # in_std
    /\ out_best.basis = "Estimated"

\* C2: for a valid clock time, parse_time_hhmm returns today's date at HH:MM:00
\* when that candidate is not earlier than now minus 6 hours (equal to it, or
\* already past, included) and the candidate plus exactly one day when it is
\* strictly earlier; the hour and minute of the result are those of the input.
C2_Anchoring ==
    (h_pc = "parse" /\ IsClock(in_std)) =>
        /\ out_parse.kind = "dt"
        /\ TodayAt(in_std, in_now) >= in_now - GraceHours * HourUnits
              => out_parse.t = TodayAt(in_std, in_now)
        /\ TodayAt(in_std, in_now) < in_now - GraceHours * HourUnits
              => out_parse.t = TodayAt(in_std, in_now) + DayUnits
        /\ HourAt(out_parse.t) = HourOf(in_std)
        /\ MinuteAt(out_parse.t) = MinuteOf(in_std)
        /\ out_parse.t % MinUnits = 0

\* C2 witness: the candidate equals now minus 6 hours exactly and stays today
C2_Witness ==
    /\ h_pc = "parse" /\ IsClock(in_std)
    /\ TodayAt(in_std, in_now) = in_now - GraceHours * HourUnits
    /\ out_parse = Dt(TodayAt(in_std, in_now))

\* C3 (as claimed): for every pair of strings best_departure_datetime completes
\* without raising; a string that is not a usable clock time is treated as
\* absent, and the result is (None, None) exactly when neither is usable.
C3_NeverRaises ==
    h_pc = "best" =>
        /\ ~out_best.raised
        /\ (out_best.dt = None /\ out_best.basis = "None")
              <=> (~IsClock(in_std) /\ ~IsClock(in_etd))

\* C4: in every record fetch_services builds, depart_dt is present if and only
\* if basis is not None; when present it is at or after the time of resolution
\* minus 6 hours and less than one day after the time of resolution.
C4_RecordInvariant ==
    (h_pc = "fetch" /\ ~out_fetch.raised) =>
        /\ Len(out_fetch.services) = 1
        /\ \A i \in 1..Len(out_fetch.services) :
              LET svc == out_fetch.services[i]
              IN /\ svc.depart_dt.kind \in {"dt", "None"}
                 /\ svc.depart_dt.kind = "dt" <=> svc.basis # "None"
                 /\ svc.depart_dt.kind = "dt" =>
                       /\ svc.depart_dt.t >= in_now - GraceHours * HourUnits
                       /\ svc.depart_dt.t < in_now + DayUnits

\* C4 witness: a record whose clock time was rolled to the next day
C4_Witness ==
    /\ h_pc = "fetch" /\ ~out_fetch.raised
    /\ out_fetch.services[1].depart_dt.kind = "dt"
    /\ out_fetch.services[1].depart_dt.t >= in_now - (in_now % DayUnits) + DayUnits

\* C5 (as claimed): after a fetch attempt that fails, in any session state, an
\* error message is shown, the service list offered to the user is empty, and
\* the request was made once.
C5_FailedFetchLeavesListEmpty ==
    (event = "fetch" /\ outcome = "error") =>
        /\ error_shown
        /\ Offered = <<>>
        /\ posts = 1

\* C6 (as claimed): the "no services found" notice is shown when, and only when,
\* a fetch returned a well-formed response with zero services; a fetch that
\* fails shows the error message and not the notice.
C6_NoticeDistinctFromError ==
    /\ warning_shown <=> outcome = "empty"
    /\ outcome = "error" => (error_shown /\ ~warning_shown)

\* C7 (as claimed): the selection state is absent until the user confirms a
\* choice, is populated by that confirmation, and once populated is cleared by
\* a fresh fetch that replaces the service list and by no other action.
C7_SelectionLifecycle ==
    [][ /\ (~has_target /\ has_target') => StartClick
        /\ StartClick => has_target'
        /\ (has_target /\ outcome' = "ok" /\ \E board \in Boards : FetchClick("ok", board))
              => ~has_target'
        /\ (has_target /\ ~has_target')
              => (outcome' = "ok" /\ \E board \in Boards : FetchClick("ok", board)) ]_vars

\* C8: the countdown loop is never entered with a null target: confirming a
\* service whose depart_dt is None starts no countdown, and whenever the
\* countdown is running (or has run to its break) its target is a datetime
\* equal to the depart_dt of the service stored as chosen.
C8_NoNullTarget ==
    /\ pc \in {"loop", "done"} =>
          /\ has_target
          /\ target_dt.kind = "dt"
          /\ target_dt = chosen.depart_dt
    /\ (event = "start" /\ chosen.depart_dt.kind # "dt") => pc = "idle"
    /\ has_target => target_dt = chosen.depart_dt

\* C8 witness: a service without a departure instant was confirmed while the
\* session held it, and no countdown runs
C8_Witness ==
    /\ event = "start"
    /\ has_target /\ chosen.depart_dt = None /\ chosen.std = Tok_cancelled
    /\ pc = "idle"

\* C9: on every tick, with r the whole seconds remaining: "--:--" is shown if
\* r > 300, the mm:ss value of r if 0 < r <= 300, the terminal message if
\* r <= 0; the display only moves forward through placeholder, mm:ss,
\* terminal; the loop has stopped exactly when the terminal message is shown.
C9_Display ==
    /\ [](event = "tick" =>
            /\ Remaining > CountdownSecs => (placeholder = Dashes /\ pc = "loop")
            /\ (0 < Remaining /\ Remaining <= CountdownSecs) =>
                  /\ ShowsMmSs(placeholder, Remaining \div SecsPerMin, Remaining % SecsPerMin)
                  /\ pc = "loop"
            /\ Remaining <= 0 => (placeholder = Departing /\ pc = "done"))
    /\ [](pc = "done" <=> placeholder = Departing)
    /\ [][ /\ Rank(placeholder') >= Rank(placeholder)
           /\ now' >= now
           /\ pc = "done" => pc' = "done" ]_vars

\* C9 witness: the tick with exactly 300 seconds remaining shows 05:00
C9_Witness ==
    /\ event = "tick" /\ pc = "loop"
    /\ Remaining = CountdownSecs
    /\ placeholder = <<"0", "5", ":", "0", "0">>

\* C10 (as claimed): for a countdown started before the target instant, at any
\* sub-second offset of the clock, the terminal message is displayed only at
\* or after the target instant.
C10_TerminalNotEarly ==
    placeholder = Departing => tick_now >= target_dt.t

====
